---- MODULE Spec2Model ----
(***************************************************************************)
(* Model of lue_vuosiraportti.py: main() reads viikko42.csv with lue_data, *)
(* aggregates the rows per calendar day with laske_paivasummat and prints  *)
(* the table with tulosta_raportti.                                        *)
(*                                                                         *)
(* Python's float is modelled as a binary floating-point format of the     *)
(* same shape as the IEEE double (round to nearest, ties to even, gradual  *)
(* underflow, overflow to infinity, NaN) but with a narrow significand and *)
(* exponent range, so that rounding happens on numbers TLC can enumerate.  *)
(* A finite float is the integer n of [k |-> "fin", n |-> n]: its value is *)
(* n / 2^FracBits.  Strings the program builds are sequences of one        *)
(* character strings.                                                      *)
(***************************************************************************)
EXTENDS Integers, Sequences, FiniteSets

\* ---------------------------------------------------------------- bounds
\* Width of the significand of the modelled float (53 for the double).
Precision == 7
\* The smallest positive float is 2^-FracBits (2^-1074 for the double).
FracBits == 3
\* The largest finite float is (2^Precision - 1) * 2^MaxShift / 2^FracBits.
MaxShift == 12
\* The input file holds at most MaxRows data rows.
MaxRows == 3

\* ------------------------------------------------------- float arithmetic
RECURSIVE Pow(_, _)
Pow(b, e) == IF e = 0 THEN 1 ELSE b * Pow(b, e - 1)

Abs(x) == IF x < 0 THEN -x ELSE x

Fin(n) == [k |-> "fin", n |-> n]
Inf(s) == [k |-> "inf", n |-> s]
NaN == [k |-> "nan", n |-> 0]
Nolla == Fin(0)

TwoP == Pow(2, Precision)
MaxFinite == (TwoP - 1) * Pow(2, MaxShift)

\* The least d = den * 2^e, e >= 0, with num / d < 2^Precision.
RECURSIVE Scale(_, _)
Scale(num, d) == IF num \div d < TwoP THEN d ELSE Scale(num, 2 * d)

\* num / den (num >= 0, den > 0, in units of 2^-FracBits) rounded to the
\* nearest float, ties to the even significand; beyond MaxFinite the
\* result is the infinity of sign sgn.
RoundRat(sgn, num, den) ==
    LET d == Scale(num, den)
        q == num \div d
        r == num % d
        up == (2 * r > d) \/ (2 * r = d /\ q % 2 = 1)
        m == (IF up THEN q + 1 ELSE q) * (d \div den)
    IN  IF m > MaxFinite THEN Inf(sgn) ELSE Fin(sgn * m)

Sign(n) == IF n < 0 THEN -1 ELSE 1

\* Python's a + b on floats.
FAdd(a, b) ==
    IF a.k = "nan" \/ b.k = "nan" THEN NaN
    ELSE IF a.k = "inf" /\ b.k = "inf" THEN (IF a.n = b.n THEN a ELSE NaN)
    ELSE IF a.k = "inf" THEN a
    ELSE IF b.k = "inf" THEN b
    ELSE RoundRat(Sign(a.n + b.n), Abs(a.n + b.n), 1)

\* Python's a / d for a float a and the positive whole-number float d.
FDiv(a, d) ==
    IF a.k = "fin" THEN RoundRat(Sign(a.n), Abs(a.n), d) ELSE a

\* ------------------------------------------------------------- strings
\* Decimal digits of a natural number, most significant first.
RECURSIVE Digits(_)
Digits(n) ==
    LET ch == <<"0", "1", "2", "3", "4", "5", "6", "7", "8", "9">>
    IN  IF n < 10 THEN <<ch[n + 1]>> ELSE Digits(n \div 10) \o <<ch[(n % 10) + 1]>>

\* str.replace(old, new) for one-character old and new.
Replace(s, old, new) == [i \in 1..Len(s) |-> IF s[i] = old THEN new ELSE s[i]]

\* The format specs :<w and :>w of an f-string: pad with spaces, never cut.
Pad(n) == [i \in 1..n |-> " "]
Ljust(s, w) == IF Len(s) >= w THEN s ELSE s \o Pad(w - Len(s))
Rjust(s, w) == IF Len(s) >= w THEN s ELSE Pad(w - Len(s)) \o s

\* f"{arvo:.2f}": the exact value of the float rounded to hundredths, ties
\* to even; the sign is kept when the digits round to zero; the non-finite
\* floats render as inf, -inf and nan.
FormatF2(arvo) ==
    IF arvo.k = "nan" THEN <<"n", "a", "n">>
    ELSE IF arvo.k = "inf"
    THEN (IF arvo.n < 0 THEN <<"-">> ELSE << >>) \o <<"i", "n", "f">>
    ELSE LET den == Pow(2, FracBits)
             num == Abs(arvo.n) * 100
             q == num \div den
             r == num % den
             c == IF (2 * r > den) \/ (2 * r = den /\ q % 2 = 1) THEN q + 1 ELSE q
         IN  (IF arvo.n < 0 THEN <<"-">> ELSE << >>)
             \o Digits(c \div 100) \o <<".">>
             \o Digits((c % 100) \div 10) \o Digits(c % 10)

\* --------------------------------------------------------------- dates
Pvm(y, m, d) == [year |-> y, month |-> m, day |-> d]

IsLeap(y) == y % 4 = 0 /\ (y % 100 # 0 \/ y % 400 = 0)

DaysInMonth(y, m) ==
    IF m = 2 THEN (IF IsLeap(y) THEN 29 ELSE 28)
    ELSE IF m \in {4, 6, 9, 11} THEN 30 ELSE 31

RECURSIVE DaysBeforeMonth(_, _)
DaysBeforeMonth(y, m) ==
    IF m = 1 THEN 0 ELSE DaysBeforeMonth(y, m - 1) + DaysInMonth(y, m - 1)

\* date.toordinal(): 1 for 0001-01-01.
ToOrdinal(p) ==
    LET y == p.year - 1
    IN  y * 365 + y \div 4 - y \div 100 + y \div 400
        + DaysBeforeMonth(p.year, p.month) + p.day

\* date.weekday(): 0 for Monday .. 6 for Sunday.
Weekday(p) == (ToOrdinal(p) + 6) % 7

\* DateLess comparing the day number first, then the month, then the year,
\* the order of the printed date.
DateLessPaivaEnsin(p, q) ==
    \/ p.day < q.day
    \/ p.day = q.day /\ p.month < q.month
    \/ p.day = q.day /\ p.month = q.month /\ p.year < q.year

\* p < q on dates, as sorted() compares the keys.
DateLess(p, q) ==
    \/ p.year < q.year
    \/ p.year = q.year /\ p.month < q.month
    \/ p.year = q.year /\ p.month = q.month /\ p.day < q.day

\* ------------------------------------------------------ the input file
\* The text of one CSV field: t is its shape, v its numbers.
\*   luku  <<s, c, dp>>   the decimal numeral s * c / 10^dp
\*   inf   <<s>>          "inf" or "-inf";   nan  "nan"
\*   aika  <<y, m, d, h>> the ISO text yyyy-mm-ddThh:00
\*   roska                text that is neither a number nor a timestamp
\*   tyhja                no text: the row is shorter than the header
Luku(s, c, dp) == [t |-> "luku", v |-> <<s, c, dp>>]
AikaTeksti(y, m, d, h) == [t |-> "aika", v |-> <<y, m, d, h>>]
InfTeksti(s) == [t |-> "inf", v |-> <<s>>]
NanTeksti == [t |-> "nan", v |-> << >>]
Roska == [t |-> "roska", v |-> << >>]
Tyhja == [t |-> "tyhja", v |-> << >>]

KulutusSarakkeet == <<"Kulutus vaihe 1 Wh", "Kulutus vaihe 2 Wh", "Kulutus vaihe 3 Wh">>
TuotantoSarakkeet == <<"Tuotanto vaihe 1 Wh", "Tuotanto vaihe 2 Wh", "Tuotanto vaihe 3 Wh">>
Sarakkeet ==
    {"Aika"} \cup {KulutusSarakkeet[i] : i \in 1..3} \cup {TuotantoSarakkeet[i] : i \in 1..3}

Rivi(aika, k, t) ==
    [s \in Sarakkeet |->
        IF s = "Aika" THEN aika
        ELSE IF \E i \in 1..3 : s = KulutusSarakkeet[i]
        THEN k[CHOOSE i \in 1..3 : s = KulutusSarakkeet[i]]
        ELSE t[CHOOSE i \in 1..3 : s = TuotantoSarakkeet[i]]]

W(c) == Luku(1, c, 0)

\* The data rows a file is drawn from: three samples of Monday 14.10.2024,
\* one of Sunday 31.12.2023 (an earlier year, a later day and month number),
\* one of the leap day 29.2.2024 carrying non-finite, negative and
\* fractional readings, and three rows the Loader cannot parse (a date that
\* does not exist, a field that is no number, a row cut short).
ValidRows ==
    { Rivi(AikaTeksti(2024, 10, 14, 0), <<W(500), W(192), W(100)>>, <<W(0), W(64), W(60000)>>),
      Rivi(AikaTeksti(2024, 10, 14, 1), <<W(1500), W(192), W(250)>>, <<W(40), W(8), W(60000)>>),
      Rivi(AikaTeksti(2024, 10, 14, 23), <<W(192), W(1000), W(24)>>, <<W(300), W(700), W(1)>>),
      Rivi(AikaTeksti(2023, 12, 31, 22), <<W(1000), W(2000), W(3000)>>, <<W(100), W(192), W(700)>>),
      Rivi(AikaTeksti(2024, 2, 29, 5), <<InfTeksti(1), Luku(-1, 40, 0), Luku(1, 1, 1)>>,
           <<NanTeksti, W(0), Luku(1, 125, 1)>>) }

BadRows ==
    { Rivi(AikaTeksti(2024, 2, 30, 0), <<W(500), W(192), W(100)>>, <<W(0), W(64), W(8)>>),
      Rivi(AikaTeksti(2024, 10, 14, 3), <<W(500), W(192), W(100)>>, <<W(0), Roska, W(8)>>),
      Rivi(AikaTeksti(2023, 12, 31, 4), <<W(500), W(192), Tyhja>>, <<Tyhja, Tyhja, Tyhja>>) }

RowSet == ValidRows \cup BadRows

\* The header rows: all seven columns, or the last column missing.
Otsakkeet == {Sarakkeet, Sarakkeet \ {"Tuotanto vaihe 3 Wh"}}

\* A file that cannot be opened has no content.
Tiedostot ==
    { [olemassa |-> FALSE, otsake |-> Sarakkeet, rivit |-> << >>] }
    \cup { [olemassa |-> TRUE, otsake |-> o, rivit |-> rs] :
             o \in Otsakkeet, rs \in UNION { [1..n -> RowSet] : n \in 0..MaxRows } }

\* ---------------------------------------------------------------- Loader
Ok(x) == [virhe |-> "", arvo |-> x]
Virhe(e) == [virhe |-> e, arvo |-> 0]

\* float(teksti)
ParseFloat(teksti) ==
    IF teksti.t = "luku"
    THEN Ok(RoundRat(teksti.v[1], teksti.v[2] * Pow(2, FracBits), Pow(10, teksti.v[3])))
    ELSE IF teksti.t = "inf" THEN Ok(Inf(teksti.v[1]))
    ELSE IF teksti.t = "nan" THEN Ok(NaN)
    ELSE IF teksti.t = "tyhja" THEN Virhe("TypeError")
    ELSE Virhe("ValueError")

\* datetime.fromisoformat(teksti).date()
ParseDate(teksti) ==
    IF teksti.t = "aika"
    THEN LET y == teksti.v[1]
             m == teksti.v[2]
             d == teksti.v[3]
             h == teksti.v[4]
         IN  IF /\ y \in 1..9999
                /\ m \in 1..12
                /\ d \in 1..DaysInMonth(y, m)
                /\ h \in 0..23
             THEN Ok(Pvm(y, m, d))
             ELSE Virhe("ValueError")
    ELSE IF teksti.t = "tyhja" THEN Virhe("TypeError")
    ELSE Virhe("ValueError")

\* float(rivi[sarake]) of a csv.DictReader row: a column the header does
\* not name is a KeyError.
KenttaFloat(otsake, rivi, sarake) ==
    IF sarake \in otsake THEN ParseFloat(rivi[sarake]) ELSE Virhe("KeyError")

\* datetime.fromisoformat(rivi[sarake]).date()
KenttaDate(otsake, rivi, sarake) ==
    IF sarake \in otsake THEN ParseDate(rivi[sarake]) ELSE Virhe("KeyError")

\* JasennaRivi storing the production values under "kulutus" and the
\* consumption values under "tuotanto".
JasennaRiviVaihdettu(otsake, rivi) ==
    LET aika == KenttaDate(otsake, rivi, "Aika")
        kul == [i \in 1..3 |-> KenttaFloat(otsake, rivi, KulutusSarakkeet[i])]
        tuo == [i \in 1..3 |-> KenttaFloat(otsake, rivi, TuotantoSarakkeet[i])]
        virheet == <<aika.virhe>> \o [i \in 1..3 |-> kul[i].virhe]
                                  \o [i \in 1..3 |-> tuo[i].virhe]
        pielessa == {i \in 1..7 : virheet[i] # ""}
    IN  IF pielessa # {}
        THEN [virhe |-> virheet[CHOOSE i \in pielessa : \A j \in pielessa : i <= j],
              mittaus |-> << >>]
        ELSE [virhe |-> "",
              mittaus |-> << [paiva |-> aika.arvo,
                              kulutus |-> [i \in 1..3 |-> tuo[i].arvo],
                              tuotanto |-> [i \in 1..3 |-> kul[i].arvo]] >>]

\* The body of the loop of lue_data for one row: the seven conversions in
\* the order of the statements, the first failure being the one raised.
JasennaRivi(otsake, rivi) ==
    LET aika == KenttaDate(otsake, rivi, "Aika")
        kul == [i \in 1..3 |-> KenttaFloat(otsake, rivi, KulutusSarakkeet[i])]
        tuo == [i \in 1..3 |-> KenttaFloat(otsake, rivi, TuotantoSarakkeet[i])]
        virheet == <<aika.virhe>> \o [i \in 1..3 |-> kul[i].virhe]
                                  \o [i \in 1..3 |-> tuo[i].virhe]
        pielessa == {i \in 1..7 : virheet[i] # ""}
    IN  IF pielessa # {}
        THEN [virhe |-> virheet[CHOOSE i \in pielessa : \A j \in pielessa : i <= j],
              mittaus |-> << >>]
        ELSE [virhe |-> "",
              mittaus |-> << [paiva |-> aika.arvo,
                              kulutus |-> [i \in 1..3 |-> kul[i].arvo],
                              tuotanto |-> [i \in 1..3 |-> tuo[i].arvo]] >>]

\* ------------------------------------------------------------ Aggregator
\* A dict is the sequence of its items [avain, arvo] in insertion order.
Avaimet(dict) == {dict[i].avain : i \in 1..Len(dict)}
Kohta(dict, avain) == CHOOSE i \in 1..Len(dict) : dict[i].avain = avain
Arvo(dict, avain) == dict[Kohta(dict, avain)].arvo

NollaSummat == [kulutus_wh |-> <<Nolla, Nolla, Nolla>>, tuotanto_wh |-> <<Nolla, Nolla, Nolla>>]

\* LisaaMittaus without the test "paiva not in paiva_summat_wh": the day's
\* sums are zeroed on every row.
LisaaMittausNollaa(summat_wh, mittaus) ==
    LET paiva == mittaus.paiva
        alustettu == IF paiva \in Avaimet(summat_wh)
                     THEN summat_wh
                     ELSE Append(summat_wh, [avain |-> paiva, arvo |-> NollaSummat])
        k == Kohta(alustettu, paiva)
    IN  [alustettu EXCEPT ![k].arvo =
            [kulutus_wh |-> [i \in 1..3 |-> FAdd(Nolla, mittaus.kulutus[i])],
             tuotanto_wh |-> [i \in 1..3 |-> FAdd(Nolla, mittaus.tuotanto[i])]]]

\* LisaaMittaus whose new day starts from the sums of the day inserted
\* before it instead of from zeros.
LisaaMittausJaettu(summat_wh, mittaus) ==
    LET paiva == mittaus.paiva
        alku == IF summat_wh = << >> THEN NollaSummat ELSE summat_wh[Len(summat_wh)].arvo
        alustettu == IF paiva \in Avaimet(summat_wh)
                     THEN summat_wh
                     ELSE Append(summat_wh, [avain |-> paiva, arvo |-> alku])
        k == Kohta(alustettu, paiva)
        vanha == alustettu[k].arvo
    IN  [alustettu EXCEPT ![k].arvo =
            [kulutus_wh |-> [i \in 1..3 |-> FAdd(vanha.kulutus_wh[i], mittaus.kulutus[i])],
             tuotanto_wh |-> [i \in 1..3 |-> FAdd(vanha.tuotanto_wh[i], mittaus.tuotanto[i])]]]

\* One round of the first loop of laske_paivasummat: the day gets zeroed
\* sums when it is new, then the row is added to the day's sums.
LisaaMittaus(summat_wh, mittaus) ==
    LET paiva == mittaus.paiva
        alustettu == IF paiva \in Avaimet(summat_wh)
                     THEN summat_wh
                     ELSE Append(summat_wh, [avain |-> paiva, arvo |-> NollaSummat])
        k == Kohta(alustettu, paiva)
        vanha == alustettu[k].arvo
    IN  [alustettu EXCEPT ![k].arvo =
            [kulutus_wh |-> [i \in 1..3 |-> FAdd(vanha.kulutus_wh[i], mittaus.kulutus[i])],
             tuotanto_wh |-> [i \in 1..3 |-> FAdd(vanha.tuotanto_wh[i], mittaus.tuotanto[i])]]]

\* paiva_summat_wh after the first n rows.
RECURSIVE SummaaWh(_, _)
SummaaWh(mittaukset, n) ==
    IF n = 0 THEN << >> ELSE LisaaMittaus(SummaaWh(mittaukset, n - 1), mittaukset[n])

\* 1000.0, the watt-hours of a kilowatt-hour.
Tuhat == 1000

\* MuunnaKwh for sums whose rows were each divided by 1000.0 on the way in.
RECURSIVE SummaRivittain(_, _, _, _)
SummaRivittain(mittaukset, paiva, laji, i) ==
    IF mittaukset = << >> THEN Nolla
    ELSE LET alku == SummaRivittain(SubSeq(mittaukset, 1, Len(mittaukset) - 1), paiva, laji, i)
             m == mittaukset[Len(mittaukset)]
         IN  IF m.paiva # paiva THEN alku
             ELSE FAdd(alku, FDiv(IF laji = "kulutus" THEN m.kulutus[i] ELSE m.tuotanto[i],
                                  Tuhat))

\* laske_paivasummat dividing every row by 1000.0 before it is added.
laske_paivasummat_rivittain(mittaukset) ==
    LET paiva_summat_wh == SummaaWh(mittaukset, Len(mittaukset))
    IN  [j \in 1..Len(paiva_summat_wh) |->
            [avain |-> paiva_summat_wh[j].avain,
             arvo |-> [kulutus |-> [i \in 1..3 |->
                          SummaRivittain(mittaukset, paiva_summat_wh[j].avain, "kulutus", i)],
                       tuotanto |-> [i \in 1..3 |->
                          SummaRivittain(mittaukset, paiva_summat_wh[j].avain, "tuotanto", i)]]]]

\* One round of the second loop: a day's sums divided by 1000.0.
MuunnaKwh(arvot) ==
    [kulutus |-> [i \in 1..3 |-> FDiv(arvot.kulutus_wh[i], Tuhat)],
     tuotanto |-> [i \in 1..3 |-> FDiv(arvot.tuotanto_wh[i], Tuhat)]]

laske_paivasummat(mittaukset) ==
    LET paiva_summat_wh == SummaaWh(mittaukset, Len(mittaukset))
    IN  [j \in 1..Len(paiva_summat_wh) |->
            [avain |-> paiva_summat_wh[j].avain,
             arvo |-> MuunnaKwh(paiva_summat_wh[j].arvo)]]

\* -------------------------------------------------------------- Reporter
\* f"{paiva.day}.{paiva.month}.{paiva.year}"
muotoile_pvm(paiva) ==
    Digits(paiva.day) \o <<".">> \o Digits(paiva.month) \o <<".">> \o Digits(paiva.year)

muotoile_kwh(arvo) == Replace(FormatF2(arvo), ".", ",")

nimet ==
    << <<"m", "a", "a", "n", "a", "n", "t", "a", "i">>,
       <<"t", "i", "i", "s", "t", "a", "i">>,
       <<"k", "e", "s", "k", "i", "v", "i", "i", "k", "k", "o">>,
       <<"t", "o", "r", "s", "t", "a", "i">>,
       <<"p", "e", "r", "j", "a", "n", "t", "a", "i">>,
       <<"l", "a", "u", "a", "n", "t", "a", "i">>,
       <<"s", "u", "n", "n", "u", "n", "t", "a", "i">> >>

\* viikonpaivan_nimi indexing the list as if the week began on Sunday.
viikonpaivan_nimi_sunnuntaista(paiva) == nimet[((Weekday(paiva) + 1) % 7) + 1]

viikonpaivan_nimi(paiva) == nimet[Weekday(paiva) + 1]

\* sorted(keys): ascending by date comparison.
RECURSIVE Sorted(_)
Sorted(S) ==
    IF S = {} THEN << >>
    ELSE LET pienin == CHOOSE p \in S : \A q \in S \ {p} : DateLess(p, q)
         IN  <<pienin>> \o Sorted(S \ {pienin})

\* The width of the divider line.
ViivanLeveys == 80
\* The widths of the name and date columns and of a value column.
NimiLeveys == 12
ArvoLeveys == 8

\* A printed line: fixed text, the divider, or a day's row of columns.
Teksti(t) == [laji |-> "teksti", teksti |-> t, sarakkeet |-> << >>]
Viiva == [laji |-> "viiva", teksti |-> "", sarakkeet |-> <<[i \in 1..ViivanLeveys |-> "-"]>>]

\* The four print calls before the loop; the title ends in a line break
\* of its own, which prints an empty line.  (The title's a-umlaut and
\* o-umlaut are written a and o.)
Otsikko ==
    << Teksti("Viikon 42 sahkonkulutus ja tuotanto"),
       Teksti(""),
       Teksti("Paiva        Pvm                       Kulutus [kWh]             Tuotanto [kWh]"),
       Teksti("             (pv.kk.vvvv)      v1      v2      v3       v1      v2      v3"),
       Viiva >>

\* The line one round of the loop of tulosta_raportti prints for paiva.
PaivaRivi(paiva_summat, paiva) ==
    LET kul == Arvo(paiva_summat, paiva).kulutus
        tuo == Arvo(paiva_summat, paiva).tuotanto
    IN  [laji |-> "rivi", teksti |-> "",
         sarakkeet |->
            << Ljust(viikonpaivan_nimi(paiva), NimiLeveys),
               Ljust(muotoile_pvm(paiva), NimiLeveys) >>
            \o [i \in 1..3 |-> Rjust(muotoile_kwh(kul[i]), ArvoLeveys)]
            \o [i \in 1..3 |-> Rjust(muotoile_kwh(tuo[i]), ArvoLeveys)]]

\* --------------------------------------------------------------- the run
VARIABLES
    tiedosto,      \* viikko42.csv: whether it can be opened, its header, its rows
    auki,          \* the file object is open
    avattu,        \* how many times open() has succeeded
    luettu,        \* rows the csv reader has handed to the loop
    mittaukset,    \* lue_data's list, then main's
    paiva_summat,  \* main's paiva_summat
    jarjestys,     \* the list sorted() built for the loop of tulosta_raportti
    tuloste,       \* the lines printed so far
    virhe,         \* the exception being raised, "" when none
    pc             \* where the run is

vars == <<tiedosto, auki, avattu, luettu, mittaukset, paiva_summat, jarjestys,
          tuloste, virhe, pc>>

Init ==
    /\ tiedosto \in Tiedostot
    /\ auki = FALSE
    /\ avattu = 0
    /\ luettu = 0
    /\ mittaukset = << >>
    /\ paiva_summat = << >>
    /\ jarjestys = << >>
    /\ tuloste = << >>
    /\ virhe = ""
    /\ pc = "main"

\* main calls lue_data, whose with statement opens the file; a file that
\* cannot be opened raises out of main.
Avaa ==
    /\ pc = "main"
    /\ IF tiedosto.olemassa
       THEN /\ auki' = TRUE
            /\ avattu' = avattu + 1
            /\ pc' = "lue"
            /\ virhe' = virhe
       ELSE /\ virhe' = "FileNotFoundError"
            /\ pc' = "kaatui"
            /\ UNCHANGED <<auki, avattu>>
    /\ UNCHANGED <<tiedosto, luettu, mittaukset, paiva_summat, jarjestys, tuloste>>

\* LueRivi that drops a row it cannot convert and goes on with the next.
LueRiviOhita ==
    /\ pc = "lue"
    /\ luettu < Len(tiedosto.rivit)
    /\ LET tulos == JasennaRivi(tiedosto.otsake, tiedosto.rivit[luettu + 1])
       IN  /\ luettu' = luettu + 1
           /\ mittaukset' = mittaukset \o tulos.mittaus
    /\ UNCHANGED <<tiedosto, auki, avattu, paiva_summat, jarjestys, tuloste, virhe, pc>>

\* One round of the loop over the reader: the next row is converted and
\* appended, or its first failing conversion raises inside the with block.
LueRivi ==
    /\ pc = "lue"
    /\ luettu < Len(tiedosto.rivit)
    /\ LET tulos == JasennaRivi(tiedosto.otsake, tiedosto.rivit[luettu + 1])
       IN  /\ luettu' = luettu + 1
           /\ mittaukset' = mittaukset \o tulos.mittaus
           /\ virhe' = tulos.virhe
           /\ pc' = IF tulos.virhe = "" THEN "lue" ELSE "poikkeus"
    /\ UNCHANGED <<tiedosto, auki, avattu, paiva_summat, jarjestys, tuloste>>

\* PoistuWith for a file opened without the with statement: close() is
\* reached only after the loop, not by an exception.
PoistuWithVuotaa ==
    /\ \/ pc = "lue" /\ luettu = Len(tiedosto.rivit)
       \/ pc = "poikkeus"
    /\ auki' = IF virhe = "" THEN FALSE ELSE auki
    /\ pc' = IF virhe = "" THEN "laske" ELSE "kaatui"
    /\ UNCHANGED <<tiedosto, avattu, luettu, mittaukset, paiva_summat, jarjestys,
                   tuloste, virhe>>

\* The with block is left, after the last row or by the exception: the
\* file is closed, and lue_data returns or the exception leaves main.
PoistuWith ==
    /\ \/ pc = "lue" /\ luettu = Len(tiedosto.rivit)
       \/ pc = "poikkeus"
    /\ auki' = FALSE
    /\ pc' = IF virhe = "" THEN "laske" ELSE "kaatui"
    /\ UNCHANGED <<tiedosto, avattu, luettu, mittaukset, paiva_summat, jarjestys,
                   tuloste, virhe>>

\* Laske for an aggregator that reads the first Measurement before its
\* loop: an empty list raises.
LaskeVaatiiRivin ==
    /\ pc = "laske"
    /\ IF mittaukset = << >>
       THEN /\ virhe' = "IndexError"
            /\ pc' = "kaatui"
            /\ paiva_summat' = paiva_summat
       ELSE /\ paiva_summat' = laske_paivasummat(mittaukset)
            /\ pc' = "otsikko"
            /\ virhe' = virhe
    /\ UNCHANGED <<tiedosto, auki, avattu, luettu, mittaukset, jarjestys, tuloste>>

\* paiva_summat = laske_paivasummat(mittaukset)
Laske ==
    /\ pc = "laske"
    /\ paiva_summat' = laske_paivasummat(mittaukset)
    /\ pc' = "otsikko"
    /\ UNCHANGED <<tiedosto, auki, avattu, luettu, mittaukset, jarjestys, tuloste, virhe>>

\* tulosta_raportti: the title, the two column header lines, the divider.
TulostaOtsikko ==
    /\ pc = "otsikko"
    /\ tuloste' = tuloste \o Otsikko
    /\ pc' = "jarjesta"
    /\ UNCHANGED <<tiedosto, auki, avattu, luettu, mittaukset, paiva_summat, jarjestys,
                   virhe>>

\* sorted(paiva_summat.keys())
Jarjesta ==
    /\ pc = "jarjesta"
    /\ jarjestys' = Sorted(Avaimet(paiva_summat))
    /\ pc' = "rivit"
    /\ UNCHANGED <<tiedosto, auki, avattu, luettu, mittaukset, paiva_summat, tuloste, virhe>>

\* One round of the loop of tulosta_raportti.
TulostaRivi ==
    /\ pc = "rivit"
    /\ jarjestys # << >>
    /\ tuloste' = Append(tuloste, PaivaRivi(paiva_summat, Head(jarjestys)))
    /\ jarjestys' = Tail(jarjestys)
    /\ UNCHANGED <<tiedosto, auki, avattu, luettu, mittaukset, paiva_summat, virhe, pc>>

\* The loop is over: tulosta_raportti and main return.
Palaa ==
    /\ pc = "rivit"
    /\ jarjestys = << >>
    /\ pc' = "valmis"
    /\ UNCHANGED <<tiedosto, auki, avattu, luettu, mittaukset, paiva_summat, jarjestys,
                   tuloste, virhe>>

Next ==
    \/ Avaa
    \/ LueRivi
    \/ PoistuWith
    \/ Laske
    \/ TulostaOtsikko
    \/ Jarjesta
    \/ TulostaRivi
    \/ Palaa

Spec == Init /\ [][Next]_vars

\* ================================================================ claims
\* lue_data has returned and laske_paivasummat has just been applied to its
\* list; neither mittaukset nor paiva_summat changes afterwards.
Laskettu == pc = "otsikko"

Paivat(ms) == {ms[j].paiva : j \in 1..Len(ms)}

\* The Measurements of one day, in the order of the list.
PaivanMittaukset(ms, paiva) ==
    LET Sama(m) == m.paiva = paiva IN SelectSeq(ms, Sama)

\* The float sum of phase i of the rows of ms, added up from 0.0 in order.
RECURSIVE KulutusSumma(_, _)
KulutusSumma(ms, i) ==
    IF ms = << >> THEN Nolla
    ELSE FAdd(KulutusSumma(SubSeq(ms, 1, Len(ms) - 1), i), ms[Len(ms)].kulutus[i])

RECURSIVE TuotantoSumma(_, _)
TuotantoSumma(ms, i) ==
    IF ms = << >> THEN Nolla
    ELSE FAdd(TuotantoSumma(SubSeq(ms, 1, Len(ms) - 1), i), ms[Len(ms)].tuotanto[i])

\* Every way of adding up the values xs adds exactly: all are finite and
\* every sum of some of them is a float.
RECURSIVE Yhteensa(_, _)
Yhteensa(xs, I) ==
    IF I = {} THEN 0
    ELSE LET i == CHOOSE i \in I : TRUE IN xs[i].n + Yhteensa(xs, I \ {i})

Tarkka(xs) ==
    /\ \A i \in 1..Len(xs) : xs[i].k = "fin"
    /\ \A I \in SUBSET (1..Len(xs)) :
          LET y == Yhteensa(xs, I) IN RoundRat(Sign(y), Abs(y), 1) = Fin(y)

\* C1: every day of the input has totals, and each of its six totals is the
\* float sum of that phase over the day's Measurements (accumulated from 0.0
\* in row order) divided by 1000.0 once; where the additions are exact that
\* is the exact sum divided by 1000 and rounded once; a day with one
\* Measurement gets that Measurement's values divided by 1000.0.
C1_SummaJaettunaTuhannella ==
    Laskettu =>
        \A paiva \in Paivat(mittaukset) :
            /\ paiva \in Avaimet(paiva_summat)
            /\ LET ms == PaivanMittaukset(mittaukset, paiva)
                   summat == Arvo(paiva_summat, paiva)
                   Jaettu(xs) ==
                       LET y == Yhteensa(xs, 1..Len(xs))
                       IN  RoundRat(Sign(y), Abs(y), Tuhat)
               IN  /\ \A i \in 1..3 :
                        LET kul == [j \in 1..Len(ms) |-> ms[j].kulutus[i]]
                            tuo == [j \in 1..Len(ms) |-> ms[j].tuotanto[i]]
                        IN  /\ summat.kulutus[i] = FDiv(KulutusSumma(ms, i), Tuhat)
                            /\ summat.tuotanto[i] = FDiv(TuotantoSumma(ms, i), Tuhat)
                            /\ Tarkka(kul) => summat.kulutus[i] = Jaettu(kul)
                            /\ Tarkka(tuo) => summat.tuotanto[i] = Jaettu(tuo)
                   /\ Len(ms) = 1 =>
                        \A i \in 1..3 :
                            /\ summat.kulutus[i] = FDiv(ms[1].kulutus[i], Tuhat)
                            /\ summat.tuotanto[i] = FDiv(ms[1].tuotanto[i], Tuhat)

\* A day with two rows whose sum divided once differs from the sum of the
\* rows divided one by one, beside a day with a single row.
C1_Witness ==
    /\ Laskettu
    /\ \E paiva \in Paivat(mittaukset) : Len(PaivanMittaukset(mittaukset, paiva)) = 1
    /\ \E paiva \in Paivat(mittaukset) :
          LET ms == PaivanMittaukset(mittaukset, paiva)
          IN  /\ Len(ms) = 2
              /\ Arvo(paiva_summat, paiva).kulutus[2]
                    # FAdd(FDiv(ms[1].kulutus[2], Tuhat), FDiv(ms[2].kulutus[2], Tuhat))

\* The permutations of 1..n, and a list reordered by one.
Permutaatiot(n) == {p \in [1..n -> 1..n] : \A i, j \in 1..n : p[i] = p[j] => i = j}
Jarjestetty(ms, p) == [i \in 1..Len(ms) |-> ms[p[i]]]

\* A dict as a mapping: its items, whatever their insertion order.
Kuvaus(dict) == {dict[i] : i \in 1..Len(dict)}

\* p keeps the rows of every single day in their relative order.
SailyttaaPaivanJarjestyksen(ms, p) ==
    \A i, j \in 1..Len(ms) :
        (i < j /\ ms[p[i]].paiva = ms[p[j]].paiva) => p[i] < p[j]

\* C2 as claimed: every permutation of the Measurements gives the same
\* mapping, the same days with the same six totals each.
C2_KaikkiJarjestyksetSamat ==
    Laskettu =>
        \A p \in Permutaatiot(Len(mittaukset)) :
            Kuvaus(laske_paivasummat(Jarjestetty(mittaukset, p))) = Kuvaus(paiva_summat)

\* C2 as amended: every permutation gives the same set of days; the whole
\* mapping is the same when the permutation keeps the rows of each day in
\* their relative order (rows of different days interleaved at will); and a
\* total of a day is the same under every permutation when the additions
\* of that phase of that day are exact.
C2_JarjestysRiippumaton ==
    Laskettu =>
        LET tarkatKulutus ==
                {<<paiva, i>> \in Avaimet(paiva_summat) \X (1..3) :
                    LET ms == PaivanMittaukset(mittaukset, paiva)
                    IN  Tarkka([j \in 1..Len(ms) |-> ms[j].kulutus[i]])}
            tarkatTuotanto ==
                {<<paiva, i>> \in Avaimet(paiva_summat) \X (1..3) :
                    LET ms == PaivanMittaukset(mittaukset, paiva)
                    IN  Tarkka([j \in 1..Len(ms) |-> ms[j].tuotanto[i]])}
        IN  \A p \in Permutaatiot(Len(mittaukset)) :
                LET toinen == laske_paivasummat(Jarjestetty(mittaukset, p))
                IN  /\ Avaimet(toinen) = Avaimet(paiva_summat)
                    /\ Len(toinen) = Len(paiva_summat)
                    /\ SailyttaaPaivanJarjestyksen(mittaukset, p)
                          => Kuvaus(toinen) = Kuvaus(paiva_summat)
                    /\ \A x \in tarkatKulutus :
                          Arvo(toinen, x[1]).kulutus[x[2]]
                             = Arvo(paiva_summat, x[1]).kulutus[x[2]]
                    /\ \A x \in tarkatTuotanto :
                          Arvo(toinen, x[1]).tuotanto[x[2]]
                             = Arvo(paiva_summat, x[1]).tuotanto[x[2]]

\* Rows of two days interleaved, one of the days with two different rows
\* whose first production phase adds exactly.
C2_Witness ==
    /\ Laskettu
    /\ Len(mittaukset) = 3
    /\ mittaukset[1].paiva = mittaukset[3].paiva
    /\ mittaukset[1].paiva # mittaukset[2].paiva
    /\ mittaukset[1].tuotanto[1] # mittaukset[3].tuotanto[1]
    /\ Tarkka(<<mittaukset[1].tuotanto[1], mittaukset[3].tuotanto[1]>>)

\* C10: the keys of the mapping are exactly the days of the input, one key
\* per day, and the totals of a day are those of the input with every
\* Measurement of the other days removed.
C10_PaivatErillaan ==
    Laskettu =>
        /\ Avaimet(paiva_summat) = Paivat(mittaukset)
        /\ Len(paiva_summat) = Cardinality(Paivat(mittaukset))
        /\ \A paiva \in Avaimet(paiva_summat) :
              Arvo(paiva_summat, paiva)
                 = Arvo(laske_paivasummat(PaivanMittaukset(mittaukset, paiva)), paiva)

\* Two rows of one day around a row of another day.
C10_Witness ==
    /\ Laskettu
    /\ Len(mittaukset) = 3
    /\ mittaukset[1].paiva = mittaukset[3].paiva
    /\ mittaukset[1].paiva # mittaukset[2].paiva
    /\ Len(paiva_summat) = 2

\* The day rows printed so far, in the order of printing.
PaivaRivit ==
    LET OnRivi(l) == l.laji = "rivi" IN SelectSeq(tuloste, OnRivi)

\* The day a printed row is about: the key whose date text the row shows.
RivinPaiva(rivi) ==
    CHOOSE paiva \in Avaimet(paiva_summat) :
        rivi.sarakkeet[2] = Ljust(muotoile_pvm(paiva), NimiLeveys)

\* C3: the rows follow the header block, each is about a day of the
\* mapping, they are in strictly ascending calendar order at every moment
\* of the printing, and when tulosta_raportti returns there is exactly one
\* row per day.
C3_RivitNousevassaJarjestyksessa ==
    LET rivit == PaivaRivit
    IN  /\ rivit # << >> => tuloste = Otsikko \o rivit
        /\ \A i \in 1..Len(rivit) :
              \E paiva \in Avaimet(paiva_summat) :
                  rivit[i].sarakkeet[2] = Ljust(muotoile_pvm(paiva), NimiLeveys)
        /\ \A i, j \in 1..Len(rivit) :
              i < j => ToOrdinal(RivinPaiva(rivit[i])) < ToOrdinal(RivinPaiva(rivit[j]))
        /\ pc = "valmis" =>
              /\ Len(rivit) = Cardinality(Avaimet(paiva_summat))
              /\ {RivinPaiva(rivit[i]) : i \in 1..Len(rivit)} = Avaimet(paiva_summat)

\* A finished report of three days whose rows arrived latest day first.
C3_Witness ==
    /\ pc = "valmis"
    /\ Len(PaivaRivit) = 3
    /\ Len(mittaukset) = 3
    /\ ToOrdinal(mittaukset[1].paiva) > ToOrdinal(mittaukset[2].paiva)
    /\ ToOrdinal(mittaukset[2].paiva) > ToOrdinal(mittaukset[3].paiva)

\* The text is a timestamp of a day and an hour that exist.
KelpoAika(teksti) ==
    /\ teksti.t = "aika"
    /\ teksti.v[2] \in 1..12
    /\ teksti.v[3] \in 1..DaysInMonth(teksti.v[1], teksti.v[2])
    /\ teksti.v[4] \in 0..23

\* The text is one float() takes for a number.
KelpoLuku(teksti) == teksti.t \in {"luku", "inf", "nan"}

\* The rows with a missing or non-numeric required field or a malformed
\* timestamp; a column the header lacks is missing from every row.
HuonotRivit ==
    {i \in 1..Len(tiedosto.rivit) :
        \/ tiedosto.otsake # Sarakkeet
        \/ ~KelpoAika(tiedosto.rivit[i]["Aika"])
        \/ \E s \in Sarakkeet \ {"Aika"} : ~KelpoLuku(tiedosto.rivit[i][s])}

EnsimmainenHuono == CHOOSE i \in HuonotRivit : \A j \in HuonotRivit : i <= j

\* C4: when the input has a row that cannot be parsed, the rows before the
\* first such row are all taken, no row after it is read, the exception is
\* raised at it and ends the run, and nothing is ever printed; the run
\* never gets to the aggregation.
C4_KeskeytysEnsimmaiseenVirheeseen ==
    HuonotRivit # {} =>
        /\ luettu <= EnsimmainenHuono
        /\ Len(mittaukset) = IF luettu < EnsimmainenHuono THEN luettu ELSE EnsimmainenHuono - 1
        /\ tuloste = << >>
        /\ paiva_summat = << >>
        /\ pc \in {"main", "lue", "poikkeus", "kaatui"}
        /\ luettu = EnsimmainenHuono => (virhe # "" /\ pc \in {"poikkeus", "kaatui"})
        /\ pc = "kaatui" => (luettu = EnsimmainenHuono /\ virhe # "")

\* A run ended by the second of three rows, the third never read.
C4_Witness ==
    /\ pc = "kaatui"
    /\ Len(tiedosto.rivit) = 3
    /\ HuonotRivit = {2, 3}
    /\ luettu = 2
    /\ Len(mittaukset) = 1

\* C5: while every row of the input is valid, the list holds one
\* Measurement per row read, in file order, the i-th with the calendar date
\* of the i-th row's timestamp and the row's consumption values under
\* kulutus and production values under tuotanto, phases 1, 2, 3; lue_data
\* returns after the last row.
C5_YksiMittausPerRivi ==
    HuonotRivit = {} =>
        /\ Len(mittaukset) = luettu
        /\ pc \notin {"main", "lue"} => luettu = Len(tiedosto.rivit)
        /\ \A i \in 1..Len(mittaukset) :
              LET rivi == tiedosto.rivit[i]
              IN  /\ mittaukset[i].paiva
                        = Pvm(rivi["Aika"].v[1], rivi["Aika"].v[2], rivi["Aika"].v[3])
                  /\ \A v \in 1..3 :
                        /\ mittaukset[i].kulutus[v] = ParseFloat(rivi[KulutusSarakkeet[v]]).arvo
                        /\ mittaukset[i].tuotanto[v] = ParseFloat(rivi[TuotantoSarakkeet[v]]).arvo

\* lue_data has returned three Measurements of three different rows.
C5_Witness ==
    /\ pc = "laske"
    /\ HuonotRivit = {}
    /\ Len(mittaukset) = 3
    /\ Cardinality({tiedosto.rivit[i] : i \in 1..3}) = 3

\* C6: the file is opened at most once, it is open only inside the with
\* block of lue_data, and it is closed when the run aggregates, prints, has
\* finished or has been ended by an exception.
C6_TiedostoSuljetaan ==
    /\ avattu <= 1
    /\ auki => pc \in {"lue", "poikkeus"}
    /\ pc \in {"laske", "otsikko", "jarjesta", "rivit", "valmis", "kaatui"} => ~auki

\* A run ended by a row that failed to parse after the file was opened.
C6_Witness ==
    /\ pc = "kaatui"
    /\ avattu = 1
    /\ luettu >= 1
    /\ virhe # ""
    /\ ~auki

\* C7: a file that opens and has no data rows is not an error; the empty
\* list of Measurements gives the empty mapping, and the finished report is
\* the title, an empty line, the two column header lines and the divider of
\* 80 dashes, with no day row.
C7_TyhjaSyote ==
    (tiedosto.olemassa /\ tiedosto.rivit = << >>) =>
        /\ virhe = ""
        /\ pc # "kaatui"
        /\ mittaukset = << >>
        /\ paiva_summat = << >>
        /\ PaivaRivit = << >>
        /\ pc \in {"jarjesta", "rivit", "valmis"} =>
              /\ Len(tuloste) = 5
              /\ \A i \in 1..4 : tuloste[i].laji = "teksti"
              /\ tuloste[1].teksti # "" /\ tuloste[2].teksti = ""
              /\ tuloste[3].teksti # "" /\ tuloste[4].teksti # ""
              /\ tuloste[5].laji = "viiva"
              /\ Len(tuloste[5].sarakkeet[1]) = 80
              /\ \A i \in 1..80 : tuloste[5].sarakkeet[1][i] = "-"

\* The report of an input without rows has been printed.
C7_Witness ==
    /\ pc = "valmis"
    /\ tiedosto.olemassa
    /\ tiedosto.rivit = << >>
    /\ Len(tuloste) = 5

Numerot == {"0", "1", "2", "3", "4", "5", "6", "7", "8", "9"}

\* A column without the spaces that pad it on the left.
RECURSIVE IlmanTaytetta(_)
IlmanTaytetta(s) ==
    IF s # << >> /\ Head(s) = " " THEN IlmanTaytetta(Tail(s)) ELSE s

\* Digits, a comma, two digits, after an optional minus sign; no full stop.
KaksiDesimaalia(s) ==
    LET n == Len(s)
        alku == IF n > 0 /\ s[1] = "-" THEN 2 ELSE 1
    IN  /\ n >= alku + 3
        /\ s[n - 2] = ","
        /\ s[n - 1] \in Numerot /\ s[n] \in Numerot
        /\ \A i \in alku..(n - 3) : s[i] \in Numerot
        /\ \A i \in 1..n : s[i] # "."

\* The floats 1.5 and 0.0.
PuolitoistaKwh == Fin(3 * Pow(2, FracBits - 1))

\* C8 as claimed: every value muotoile_kwh has rendered into the report has
\* exactly two digits after a comma and no full stop, 1.5 renders "1,50"
\* and 0 renders "0,00".
C8_KaksiDesimaaliaAina ==
    /\ muotoile_kwh(PuolitoistaKwh) = <<"1", ",", "5", "0">>
    /\ muotoile_kwh(Nolla) = <<"0", ",", "0", "0">>
    /\ \A i \in 1..Len(PaivaRivit) :
          \A c \in 3..8 : KaksiDesimaalia(IlmanTaytetta(PaivaRivit[i].sarakkeet[c]))

\* C8 for the finite values: every finite total of the report is rendered
\* with exactly two digits after a comma and no full stop.
C8_AarellisetKaksiDesimaalia ==
    /\ muotoile_kwh(PuolitoistaKwh) = <<"1", ",", "5", "0">>
    /\ muotoile_kwh(Nolla) = <<"0", ",", "0", "0">>
    /\ \A i \in 1..Len(PaivaRivit) :
          LET summat == Arvo(paiva_summat, RivinPaiva(PaivaRivit[i]))
              arvot == summat.kulutus \o summat.tuotanto
          IN  \A c \in 1..6 :
                arvot[c].k = "fin"
                    => KaksiDesimaalia(IlmanTaytetta(PaivaRivit[i].sarakkeet[c + 2]))

\* Zeller's congruence, turned to 0 for Monday .. 6 for Sunday.
Zeller(paiva) ==
    LET m == IF paiva.month < 3 THEN paiva.month + 12 ELSE paiva.month
        y == IF paiva.month < 3 THEN paiva.year - 1 ELSE paiva.year
        h == (paiva.day + ((13 * (m + 1)) \div 5) + (y % 100) + ((y % 100) \div 4)
              + ((y \div 100) \div 4) + (5 * (y \div 100))) % 7
    IN  (h + 5) % 7

\* The day after paiva, and the day n days after it.
Huominen(paiva) ==
    IF paiva.day < DaysInMonth(paiva.year, paiva.month)
    THEN Pvm(paiva.year, paiva.month, paiva.day + 1)
    ELSE IF paiva.month < 12 THEN Pvm(paiva.year, paiva.month + 1, 1)
    ELSE Pvm(paiva.year + 1, 1, 1)

RECURSIVE PaivanPaasta(_, _)
PaivanPaasta(paiva, n) == IF n = 0 THEN paiva ELSE PaivanPaasta(Huominen(paiva), n - 1)

NimenKohta(nimi) == CHOOSE i \in 1..7 : nimet[i] = nimi

\* C9: Monday 14.10.2024 is "maanantai" and Sunday 20.10.2024 "sunnuntai";
\* every printed row shows the name at the index of its date's weekday in
\* the list of seven names (0 = Monday); and for every day of the report
\* the day 7 days later has the same name and the next day has the next
\* name of the list, "maanantai" following "sunnuntai".
C9_ViikonpaivanNimi ==
    /\ viikonpaivan_nimi(Pvm(2024, 10, 14)) = <<"m", "a", "a", "n", "a", "n", "t", "a", "i">>
    /\ viikonpaivan_nimi(Pvm(2024, 10, 20)) = <<"s", "u", "n", "n", "u", "n", "t", "a", "i">>
    /\ Len(nimet) = 7
    /\ \A i \in 1..Len(PaivaRivit) :
          PaivaRivit[i].sarakkeet[1]
             = Ljust(nimet[Zeller(RivinPaiva(PaivaRivit[i])) + 1], NimiLeveys)
    /\ \A paiva \in Avaimet(paiva_summat) :
          /\ viikonpaivan_nimi(PaivanPaasta(paiva, 7)) = viikonpaivan_nimi(paiva)
          /\ NimenKohta(viikonpaivan_nimi(Huominen(paiva)))
                = (NimenKohta(viikonpaivan_nimi(paiva)) % 7) + 1

\* A finished report with the rows of a Sunday at the end of a year, a leap
\* day and a Monday.
C9_Witness ==
    /\ pc = "valmis"
    /\ Len(PaivaRivit) = 3
    /\ PaivaRivit[1].sarakkeet[1] = Ljust(nimet[7], NimiLeveys)
    /\ PaivaRivit[2].sarakkeet[1] = Ljust(nimet[4], NimiLeveys)
    /\ PaivaRivit[3].sarakkeet[1] = Ljust(nimet[1], NimiLeveys)

====
